---------------------------- MODULE Spec2Model ----------------------------
(***************************************************************************)
(* A model of tracker.py, the multi-webhook BSGO tracker: configuration    *)
(* loading, the scheduler loop, run_once_for and the functions it calls    *)
(* (fetch_data, append_to_csv, update_average_csv, plot_combined,          *)
(* send_to_discord and the last-message-id files).                         *)
(*                                                                         *)
(* Text is modelled as a sequence of characters.  Besides the ordinary     *)
(* characters " ", ",", "[", "]", "a", "b" there are two characters that   *)
(* each abbreviate a whole JSON object text without white space:           *)
(*     "O"  is  {"url":"a"}                                                *)
(*     "P"  is  {"url":"b","bsgo_url":"s"}   (it contains one comma)       *)
(* and two that each abbreviate an endpoint URL:                           *)
(*     "X"  is  https://discord.com/api/webhooks/883357/t                  *)
(*     "Y"  is  https://discord.com/api/webhooks/1392741/t                 *)
(***************************************************************************)
EXTENDS Integers, Sequences, FiniteSets, TLC

-----------------------------------------------------------------------------
(* Bounds of the model *)

\* number of scheduler cycles explored
MaxCycles == 2

\* number of direct calls of the functions explored by the function-level
\* specification
MaxOps == 3

\* number of records of the snapshots given to the bucketing of
\* plot_combined on its own
MaxSnapshot == 2

\* number of rows of the histories given to _pct_leader_text on its own
MaxHistory == 3

-----------------------------------------------------------------------------
(* Text helpers: str.strip, str.split(",") *)

RECURSIVE LStrip(_)
LStrip(s) ==
    IF s # <<>> /\ Head(s) = " " THEN LStrip(Tail(s)) ELSE s

RECURSIVE RStrip(_)
RStrip(s) ==
    IF s # <<>> /\ s[Len(s)] = " " THEN RStrip(SubSeq(s, 1, Len(s) - 1)) ELSE s

\* str.strip()
Strip(s) == RStrip(LStrip(s))

\* the characters of a text, with the object abbreviation "P" spelled out far
\* enough to show the comma it contains
RECURSIVE Expand(_)
Expand(s) ==
    IF s = <<>> THEN <<>>
    ELSE IF Head(s) = "P" THEN <<"P1", ",", "P2">> \o Expand(Tail(s))
    ELSE <<Head(s)>> \o Expand(Tail(s))

\* str.split(","): the pieces between commas, empty pieces included
RECURSIVE SplitFrom(_, _, _)
SplitFrom(s, i, cur) ==
    IF i > Len(s) THEN <<cur>>
    ELSE IF s[i] = "," THEN <<cur>> \o SplitFrom(s, i + 1, <<>>)
    ELSE SplitFrom(s, i + 1, Append(cur, s[i]))

SplitComma(s) == SplitFrom(Expand(s), 1, <<>>)

-----------------------------------------------------------------------------
(* json.loads on the model's texts *)

JsonFail == [ok |-> FALSE, next |-> 0, val |-> [t |-> "error"]]

RECURSIVE SkipWs(_, _)
SkipWs(s, i) ==
    IF i <= Len(s) /\ s[i] = " " THEN SkipWs(s, i + 1) ELSE i

RECURSIVE ParseValue(_, _)
RECURSIVE ParseElems(_, _, _)
ParseValue(s, i) ==
    LET j == SkipWs(s, i) IN
    IF j > Len(s) THEN JsonFail
    ELSE IF s[j] \in {"O", "P"}
         THEN [ok |-> TRUE, next |-> j + 1, val |-> [t |-> "dict", tok |-> s[j]]]
    ELSE IF s[j] = "["
         THEN LET k == SkipWs(s, j + 1) IN
              IF k <= Len(s) /\ s[k] = "]"
              THEN [ok |-> TRUE, next |-> k + 1,
                    val |-> [t |-> "list", elems |-> <<>>]]
              ELSE ParseElems(s, j + 1, <<>>)
    ELSE JsonFail

ParseElems(s, i, acc) ==
    LET r == ParseValue(s, i) IN
    IF ~r.ok THEN JsonFail
    ELSE LET j == SkipWs(s, r.next) IN
         IF j > Len(s) THEN JsonFail
         ELSE IF s[j] = "," THEN ParseElems(s, j + 1, Append(acc, r.val))
         ELSE IF s[j] = "]"
              THEN [ok |-> TRUE, next |-> j + 1,
                    val |-> [t |-> "list", elems |-> Append(acc, r.val)]]
         ELSE JsonFail

\* json.loads(raw): the parsed value, or [t |-> "error"] where it raises
JsonLoads(s) ==
    LET r == ParseValue(s, 1) IN
    IF r.ok /\ SkipWs(s, r.next) > Len(s) THEN r.val ELSE [t |-> "error"]

\* the keys and values of the two object texts; "" is a key that is absent
JsonDict(tok) ==
    IF tok = "O" THEN [url |-> <<"a">>, bsgo_url |-> "", label |-> ""]
    ELSE [url |-> <<"b">>, bsgo_url |-> "s", label |-> ""]

-----------------------------------------------------------------------------
(* Configuration *)

DEFAULT_URL == "https://bsgo.fun/Services/Identity/Account/EU"

\* os.environ.get("BSGO_URL", DEFAULT_URL), the variable being unset
EnvBsgoUrl == DEFAULT_URL

\* the entries the JSON branch collects from a parsed list
RECURSIVE JsonEntries(_)
JsonEntries(elems) ==
    IF elems = <<>> THEN <<>>
    ELSE LET it == Head(elems) IN
         IF it.t = "dict"
         THEN LET d == JsonDict(it.tok) IN
              <<[url |-> d.url,
                 bsgo_url |-> IF d.bsgo_url # "" THEN d.bsgo_url ELSE EnvBsgoUrl,
                 label |-> d.label]>> \o JsonEntries(Tail(elems))
         ELSE JsonEntries(Tail(elems))

\* the comma-separated fallback
RECURSIVE CommaEntries(_)
CommaEntries(pieces) ==
    IF pieces = <<>> THEN <<>>
    ELSE LET u == Strip(Head(pieces)) IN
         IF u # <<>>
         THEN <<[url |-> u, bsgo_url |-> EnvBsgoUrl, label |-> ""]>>
                  \o CommaEntries(Tail(pieces))
         ELSE CommaEntries(Tail(pieces))

\* _load_webhooks without its check of an empty value (lines 29-30 left out)
LoadWebhooksNoCheck(env) ==
    [exit |-> FALSE, hooks |-> CommaEntries(SplitComma(Strip(env)))]

\* _load_webhooks: exit |-> TRUE where it raises SystemExit
LoadWebhooks(env) ==
    LET raw == Strip(env) IN
    IF raw = <<>> THEN [exit |-> TRUE, hooks |-> <<>>]
    ELSE LET arr == JsonLoads(raw)
             out == IF arr.t = "list" THEN JsonEntries(arr.elems) ELSE <<>>
         IN  IF out # <<>> THEN [exit |-> FALSE, hooks |-> out]
             ELSE [exit |-> FALSE, hooks |-> CommaEntries(SplitComma(raw))]

\* the values of WEBHOOK_URLS the model starts from
RawValues ==
    { <<>>, <<" ">>, <<",">>, <<" ", "a", ",">>, <<"a", ",", "b">>,
      <<"[", "]">>, <<"[", "O", ",", "P", "]">>, <<"O">> }

-----------------------------------------------------------------------------
(* fetch_data *)

\* table rows of the fetched page: n is the number of <td> cells of the row
Alice == [n |-> 4, faction |-> "Colonial", player_id |-> "1", name |-> "Alice",
          level |-> "10"]
Bob   == [n |-> 4, faction |-> "Cylon", player_id |-> "2", name |-> "Bob",
          level |-> "20"]
Carol == [n |-> 5, faction |-> "Colonial", player_id |-> "4", name |-> "Carol",
          level |-> "300"]
BadLevel == [n |-> 4, faction |-> "X", player_id |-> "3", name |-> "bad",
             level |-> "notanumber"]
ShortRow == [n |-> 3, faction |-> "Cylon", player_id |-> "5", name |-> "Dee",
             level |-> ""]
Zed == [n |-> 4, faction |-> "Neutral", player_id |-> "6", name |-> "Zed",
        level |-> "20"]

\* the pages the source may serve
Pages ==
    { <<>>, <<ShortRow, BadLevel>>, <<Alice>>, <<Bob, Carol>>, <<Zed>>,
      <<Alice, Bob, BadLevel>> }

\* the pages served while the scheduler runs
CyclePages == { <<>>, <<Zed>>, <<Alice>>, <<Alice, Bob, BadLevel>> }

\* str.isdigit and int() on the level texts of the rows above
IsDigit(t) == t \in {"10", "20", "300"}

IntOf(t) == CASE t = "10" -> 10 [] t = "20" -> 20 [] t = "300" -> 300

\* the clock read when row i is parsed: the clock starts at t0 and ticks once
\* just before row k is parsed (k = 0: it does not tick during the call)
ClockAt(t0, k, i) == IF k # 0 /\ i >= k THEN t0 + 1 ELSE t0

\* the loop of fetch_data over the rows, from row i on
RECURSIVE ParseRows(_, _, _, _)
ParseRows(rows, i, t0, k) ==
    IF i > Len(rows) THEN <<>>
    ELSE LET row == rows[i] IN
         IF row.n >= 4 /\ IsDigit(row.level)
         THEN <<[timestamp |-> ClockAt(t0, k, i), faction |-> row.faction,
                 player_id |-> row.player_id, name |-> row.name,
                 level |-> IntOf(row.level)]>> \o ParseRows(rows, i + 1, t0, k)
         ELSE ParseRows(rows, i + 1, t0, k)

\* fetch_data on a page that was retrieved with a success status
FetchData(rows, t0, k) == ParseRows(rows, 1, t0, k)

\* the moments at which the clock is let tick during one call: never, or
\* between the first row and the second
TickPoints(rows) == IF Len(rows) >= 2 THEN {0, 2} ELSE {0}

-----------------------------------------------------------------------------
(* The two logs: append_to_csv, update_average_csv *)

\* a log that does not exist yet
NoFile == [exists |-> FALSE, header |-> FALSE, rows |-> <<>>]

\* append_to_csv opening the file with mode 'w' instead of 'a'
AppendToCsvOverwrite(df, file) ==
    IF df = <<>> THEN file
    ELSE [exists |-> TRUE, header |-> ~file.exists, rows |-> df]

\* append_to_csv(df, filepath), the write succeeding
AppendToCsv(df, file) ==
    IF df = <<>> THEN file
    ELSE [exists |-> TRUE,
          header |-> IF file.exists THEN file.header ELSE TRUE,
          rows |-> file.rows \o df]

\* update_average_csv that skips the write when both counts are zero
UpdateAverageCsvSkipZero(file, ts, colonial_count, cylon_count) ==
    IF colonial_count = 0 /\ cylon_count = 0 THEN file
    ELSE [exists |-> TRUE,
          header |-> IF file.exists THEN file.header ELSE TRUE,
          rows |-> Append(file.rows, [timestamp |-> ts,
                                      colonial |-> colonial_count,
                                      cylon |-> cylon_count])]

\* update_average_csv(colonial_count, cylon_count), the write succeeding
UpdateAverageCsv(file, ts, colonial_count, cylon_count) ==
    [exists |-> TRUE,
     header |-> IF file.exists THEN file.header ELSE TRUE,
     rows |-> Append(file.rows, [timestamp |-> ts,
                                 colonial |-> colonial_count,
                                 cylon |-> cylon_count])]

\* (df['faction'] == f).sum()
RECURSIVE CountFaction(_, _)
CountFaction(df, f) ==
    IF df = <<>> THEN 0
    ELSE (IF Head(df).faction = f THEN 1 ELSE 0) + CountFaction(Tail(df), f)

-----------------------------------------------------------------------------
(* The level distribution: LEVEL_RANGES and lines 148-155 of plot_combined *)

LEVEL_RANGES ==
    << <<0, 15>>, <<16, 25>>, <<26, 45>>, <<46, 80>>, <<81, 139>>,
       <<140, 200>>, <<201, 255>> >>

\* Series.between with the upper end left out
BetweenExclusive(x, low, high) == low <= x /\ x < high

\* Series.between(low, high): both ends are included
Between(x, low, high) == low <= x /\ x <= high

\* len(df_current[(df_current['faction'] == f) &
\*                (df_current['level'].between(low, high))])
RECURSIVE CountBand(_, _, _, _)
CountBand(df_current, f, low, high) ==
    IF df_current = <<>> THEN 0
    ELSE (IF Head(df_current).faction = f
             /\ Between(Head(df_current).level, low, high) THEN 1 ELSE 0)
         + CountBand(Tail(df_current), f, low, high)

\* the three lists the loop of lines 152-155 builds, one entry per range
BucketCounts(df_current) ==
    [categories |-> [b \in DOMAIN LEVEL_RANGES |->
                        ToString(LEVEL_RANGES[b][1]) \o "-"
                            \o ToString(LEVEL_RANGES[b][2])],
     counts_colonial |-> [b \in DOMAIN LEVEL_RANGES |->
                             CountBand(df_current, "Colonial",
                                       LEVEL_RANGES[b][1], LEVEL_RANGES[b][2])],
     counts_cylon |-> [b \in DOMAIN LEVEL_RANGES |->
                          CountBand(df_current, "Cylon",
                                    LEVEL_RANGES[b][1], LEVEL_RANGES[b][2])]]

-----------------------------------------------------------------------------
(* _pct_leader_text *)

\* a value that is missing in a column read by read_csv (NaN); the counts
\* that are present are never negative
NaN == -1

\* df_avg.dropna(subset=["colonial", "cylon"])
Comp(df_avg) ==
    SelectSeq(df_avg, LAMBDA r : r.colonial # NaN /\ r.cylon # NaN)

\* comp[comp["colonial"] != comp["cylon"]]
NonTies(df_avg) ==
    SelectSeq(Comp(df_avg), LAMBDA r : r.colonial # r.cylon)

\* line 120 taking the length of comp instead of non_ties
TotalOfComp(df_avg) == Len(Comp(df_avg))

\* line 120: total = len(non_ties)
Total(df_avg) == Len(NonTies(df_avg))

\* lines 121-122: the numbers of rows in which a faction is ahead
ColAhead(df_avg) ==
    Len(SelectSeq(NonTies(df_avg), LAMBDA r : r.colonial > r.cylon))

CylAhead(df_avg) ==
    Len(SelectSeq(NonTies(df_avg), LAMBDA r : r.cylon > r.colonial))

\* round(n * 100.0 / d, 1), in tenths: the nearest tenth, and the even one of
\* the two where n * 100 / d lies half way between them (such a quotient is a
\* multiple of 1/16 and so is exact as a float)
RoundPct(n, d) ==
    LET q == (1000 * n) \div d
        r == (1000 * n) % d
    IN  IF 2 * r < d THEN q
        ELSE IF 2 * r > d THEN q + 1
        ELSE IF q % 2 = 0 THEN q ELSE q + 1

\* lines 123-124
ColPct(df_avg) == RoundPct(ColAhead(df_avg), Total(df_avg))

CylPct(df_avg) == RoundPct(CylAhead(df_avg), Total(df_avg))

\* how an f-string writes a float that has one decimal, given in tenths
FormatTenths(t) == ToString(t \div 10) \o "." \o ToString(t % 10)

\* _pct_leader_text(df_avg)
PctLeaderText(df_avg) ==
    IF df_avg = <<>> THEN "No history yet."
    ELSE IF Comp(df_avg) = <<>> THEN "No history yet."
    ELSE IF NonTies(df_avg) = <<>> THEN "All samples tied."
    ELSE "Colonial ahead: " \o FormatTenths(ColPct(df_avg))
            \o "% | Cylon ahead: " \o FormatTenths(CylPct(df_avg)) \o "%"

-----------------------------------------------------------------------------
(* plot_combined *)

\* the names bound at module level when plot_combined runs
ModuleGlobals ==
    { "os", "io", "time", "json", "hashlib", "datetime", "List", "Tuple",
      "Optional", "matplotlib", "plt", "DateFormatter", "AutoDateLocator",
      "requests", "pd", "BeautifulSoup", "DEFAULT_URL", "_load_webhooks",
      "UPDATE_MINUTES", "RAW_DATA_CSV", "AVG_DATA_CSV", "LEVEL_RANGES",
      "fetch_data", "append_to_csv", "update_average_csv", "_apply_dark",
      "_autolabel", "_pct_leader_text", "plot_combined",
      "_id_file_for_webhook", "_read_last_msg_id", "_write_last_msg_id",
      "send_to_discord", "run_once_for" }

\* _apply_dark(ax): line 101 evaluates color("#3a3f44"), a call of the name
\* color, which is looked up among the function's locals (ax), the module's
\* globals and the builtins
ApplyDark ==
    IF "color" \in ModuleGlobals \cup {"ax"} THEN "ok" ELSE "NameError"

\* what pd.read_csv(AVG_DATA_CSV) does: it returns the rows, or raises
ReadOutcomes == {"ok", "raises"}

\* the history loaded before the last row of the file was appended
ReadHistoryBeforeAppend(avg, rd) ==
    IF avg.exists /\ rd = "ok" /\ avg.rows # <<>>
    THEN SubSeq(avg.rows, 1, Len(avg.rows) - 1)
    ELSE <<>>

\* the history plot_combined loads (lines 134-140): the rows of the file, or
\* None when there is no file or read_csv raises (None is the empty sequence
\* here: the two are told apart by nothing later in the function)
ReadHistory(avg, rd) ==
    IF avg.exists
    THEN IF rd = "ok" THEN avg.rows ELSE <<>>
    ELSE <<>>

\* plot_combined(df_current, region_label): the image, or the exception;
\* history is df_hist, which is loaded before anything is drawn
PlotCombined(df_current, avg, region_label, rd) ==
    LET df_hist == ReadHistory(avg, rd) IN
    IF ApplyDark # "ok"
    THEN [raised |-> TRUE, exc |-> ApplyDark, ts |-> 0, history |-> df_hist]
    ELSE [raised |-> FALSE, exc |-> "",
          ts |-> df_current[1].timestamp, history |-> df_hist]

-----------------------------------------------------------------------------
(* The last-message-id files *)

\* _id_file_for_webhook(url): "last_id_" + md5(url)[:10] + ".txt", the digest
\* prefixes being those of the texts "a", "b", "[]", {"url":"a"} and of the
\* two URLs that "X" and "Y" abbreviate, whose digests
\* bdf1f522c80add2cc834b9fd8062f90f and bdf1f522c874db9461497da5ec9de6d0
\* begin with the same ten digits
IdFileForWebhook(url) ==
    CASE url = <<"a">>      -> "last_id_0cc175b9c0.txt"
      [] url = <<"b">>      -> "last_id_92eb5ffee6.txt"
      [] url = <<"[", "]">> -> "last_id_d751713988.txt"
      [] url = <<"O">>      -> "last_id_0c0a592bb2.txt"
      [] url = <<"X">>      -> "last_id_bdf1f522c8.txt"
      [] url = <<"Y">>      -> "last_id_bdf1f522c8.txt"

\* the endpoint URLs the model's configurations can hold
Urls == { <<"a">>, <<"b">>, <<"[", "]">>, <<"O">>, <<"X">>, <<"Y">> }

IdFileNames == { IdFileForWebhook(u) : u \in Urls }

\* a file: absent, present but unreadable (open or read raises), or a text
Absent == [st |-> "absent", text |-> <<>>]
Unreadable == [st |-> "unreadable", text |-> <<>>]
TextFile(t) == [st |-> "text", text |-> t]

\* what _read_last_msg_id returns: None, or a str
None == [some |-> FALSE, id |-> <<>>]
Some(t) == [some |-> TRUE, id |-> t]

\* the truth value Python gives to an Optional[str]
Truthy(v) == v.some /\ v.id # <<>>

\* _read_last_msg_id returning f.read() as it is, without .strip()
ReadLastMsgIdNoStrip(url, files) ==
    LET f == files[IdFileForWebhook(url)] IN
    IF f.st # "absent"
    THEN IF f.st = "unreadable" THEN None ELSE Some(f.text)
    ELSE None

\* _read_last_msg_id(url): os.path.exists(path) tells whether the file is
\* there; an exception of open or read (a file that cannot be opened, bytes
\* that cannot be decoded) is caught and None returned
ReadLastMsgId(url, files) ==
    LET f == files[IdFileForWebhook(url)] IN
    IF f.st # "absent"
    THEN IF f.st = "unreadable" THEN None ELSE Some(Strip(f.text))
    ELSE None

\* _write_last_msg_id opening the file with mode "a" instead of "w"
WriteLastMsgIdAppend(url, mid, files, fs) ==
    LET path == IdFileForWebhook(url)
        old == IF files[path].st = "text" THEN files[path].text ELSE <<>>
    IN  IF fs = "open_fails" THEN files
        ELSE IF fs = "write_fails" \/ ~mid.str
             THEN [files EXCEPT ![path] = TextFile(old)]
        ELSE [files EXCEPT ![path] = TextFile(old \o mid.text)]

\* _write_last_msg_id writing one id file for all endpoints
WriteLastMsgIdOneFile(url, mid, files, fs) ==
    LET path == "last_id_0cc175b9c0.txt" IN
    IF fs = "open_fails" THEN files
    ELSE IF fs = "write_fails" \/ ~mid.str
         THEN [files EXCEPT ![path] = TextFile(<<>>)]
    ELSE [files EXCEPT ![path] = TextFile(mid.text)]

\* _write_last_msg_id(url, mid).  mid is the JSON value of "id": a str, or
\* something else (str |-> FALSE), for which f.write raises TypeError.
\* fs is what the file system does: "ok", "open_fails" (open raises, nothing
\* is touched) or "write_fails" (open(path, "w") has truncated the file and
\* the write or the close raises).  Every exception is swallowed.
WriteLastMsgId(url, mid, files, fs) ==
    LET path == IdFileForWebhook(url) IN
    IF fs = "open_fails" THEN files
    ELSE IF fs = "write_fails" \/ ~mid.str
         THEN [files EXCEPT ![path] = TextFile(<<>>)]
    ELSE [files EXCEPT ![path] = TextFile(mid.text)]

FsOutcomes == {"ok", "open_fails", "write_fails"}

-----------------------------------------------------------------------------
(* send_to_discord *)

\* str.rstrip("/")
RECURSIVE RStripSlash(_)
RStripSlash(s) ==
    IF s # <<>> /\ s[Len(s)] = "/"
    THEN RStripSlash(SubSeq(s, 1, Len(s) - 1)) ELSE s

\* what the endpoint answers: requests raises; or a response with r.ok false;
\* or a response with r.ok true whose body is not JSON ("nojson", r.json()
\* raises), is JSON without "id" ("noid"), or is JSON with "id" ("id")
RespRaise == [kind |-> "raise", ok |-> FALSE, body |-> "",
              id |-> [str |-> TRUE, text |-> <<>>]]
RespNotOk == [kind |-> "http", ok |-> FALSE, body |-> "",
              id |-> [str |-> TRUE, text |-> <<>>]]
RespOk(b, v) == [kind |-> "http", ok |-> TRUE, body |-> b, id |-> v]

\* the message ids a response can carry: two strings and one number
StrId(t) == [str |-> TRUE, text |-> t]
NumId == [str |-> FALSE, text |-> <<"7">>]
ResponseIds == { StrId(<<"1">>), StrId(<<"2">>), NumId }

Responses ==
    { RespRaise, RespNotOk, RespOk("nojson", StrId(<<>>)),
      RespOk("noid", StrId(<<>>)) } \cup { RespOk("id", v) : v \in ResponseIds }

\* the request send_to_discord builds when it edits whenever a file was read
\* (last_id is not None) instead of whenever last_id is true
BuildRequestIsNotNone(webhook_url, last_id, summary_text) ==
    IF last_id.some
    THEN [method |-> "PATCH", base |-> RStripSlash(webhook_url),
          message |-> last_id.id, content |-> summary_text,
          payload_json |-> "{\"attachments\": []}"]
    ELSE [method |-> "POST", base |-> webhook_url, message |-> <<>>,
          content |-> summary_text, payload_json |-> ""]

\* the request send_to_discord builds (lines 232-241): the method, the URL
\* (base, then "/messages/" and message for an edit), the content field and
\* the payload_json field ("" when the field is not sent)
BuildRequest(webhook_url, last_id, summary_text) ==
    IF Truthy(last_id)
    THEN [method |-> "PATCH", base |-> RStripSlash(webhook_url),
          message |-> last_id.id, content |-> summary_text,
          payload_json |-> "{\"attachments\": []}"]
    ELSE [method |-> "POST", base |-> webhook_url, message |-> <<>>,
          content |-> summary_text, payload_json |-> ""]

\* whether send_to_discord, answered by resp, calls _write_last_msg_id
Writes(resp) == resp.kind = "http" /\ resp.ok /\ resp.body = "id"

\* the id files after send_to_discord that records the id of any response
\* it received, whatever r.ok says
AfterResponseIgnoreOk(webhook_url, resp, files, fs) ==
    IF resp.kind = "raise" THEN files
    ELSE WriteLastMsgId(webhook_url, resp.id, files, fs)

\* the id files after send_to_discord has received resp (lines 242-252)
AfterResponse(webhook_url, resp, files, fs) ==
    IF resp.kind = "raise" THEN files
    ELSE IF ~resp.ok THEN files
    ELSE IF resp.body = "id" THEN WriteLastMsgId(webhook_url, resp.id, files, fs)
    ELSE files

-----------------------------------------------------------------------------
(* State *)

VARIABLES
    env,        \* the value of WEBHOOK_URLS
    pc,         \* "startup", "exited", "loop" (line 280), "run" (inside the
                \* for loop), "sleep" (line 288), "crashed" (an exception left
                \* the while loop); "calls" in the function-level specification
    exitCode,   \* the exit status once pc = "exited"
    webhooks,   \* the list _load_webhooks returned
    cycle,      \* number of iterations of the while loop begun
    idx,        \* position in webhooks of the destination being run
    step,       \* the statement of run_once_for that is next
    df,         \* the snapshot fetch_data returned
    now,        \* datetime.utcnow(), in ticks
    players,    \* players.csv
    averages,   \* averages.csv
    idFiles,    \* the last_id_*.txt files, by name
    netCalls,   \* number of HTTP requests issued since the process started
    ran,        \* the positions run_once_for was called for in this cycle
    trace,      \* what the current run has done so far, in order
    runBase,    \* the lengths of the two logs when the current run began
    lastRun,    \* how the most recent run ended and what it appended
    pub,        \* the most recent call of send_to_discord
    op,         \* the most recent function call of the function-level
                \* specification
    hist,       \* the history (df_hist) that the most recent call of
                \* plot_combined by run_once_for loaded, and how the read went
    result,     \* what the most recent call of a pure function returned
    origin,     \* for each row of averages.csv that run_once_for appended,
                \* the source URL (bsgo_url) of the destination it ran for
    keys        \* for each endpoint URL, the names of the id files that the
                \* publishes of the destination-state specification have
                \* used for it, before and after restarts

vars == <<env, pc, exitCode, webhooks, cycle, idx, step, df, now, players,
          averages, idFiles, netCalls, ran, trace, runBase, lastRun, pub, op,
          hist, result, origin, keys>>

NoRun == [idx |-> 0, outcome |-> "none", snapshot |-> <<>>,
          playersAdded |-> 0, averagesAdded |-> 0]

\* the summary text of run_once_for (lines 268-273), as its parts
Summary(label, snapshot) ==
    [label |-> label, colonial |-> CountFaction(snapshot, "Colonial"),
     cylon |-> CountFaction(snapshot, "Cylon"), total |-> Len(snapshot)]

NoSummary == [label |-> "", colonial |-> 0, cylon |-> 0, total |-> 0]

NoPub == [n |-> 0, url |-> <<>>, before |-> Absent, last_id |-> None,
          req |-> [method |-> "", base |-> <<>>, message |-> <<>>,
                   content |-> NoSummary, payload_json |-> ""],
          resp |-> RespRaise, fs |-> "ok", failedEdits |-> 0]

NoOp == [n |-> 0, name |-> "", raised |-> FALSE, arg |-> <<>>]

NoOut == [name |-> "", val |-> <<>>]

NoHist == [read |-> "none", rows |-> <<>>]

-----------------------------------------------------------------------------
(* The scheduler: lines 277-288 *)

\* the exception classes that "except Exception" (line 285) catches, among
\* those the model raises; SystemExit and KeyboardInterrupt are not
ExceptionClasses == {"RequestException", "OSError", "NameError"}

\* an except clause that names requests.RequestException only
CaughtRequestsOnly(e) == e = "RequestException"

\* whether the except clause of line 285 catches e
Caught(e) == e \in ExceptionClasses

\* line 260 never taking the early return
DfEmptyNever(frame) == FALSE

\* line 260: df.empty
DfEmpty(frame) == frame = <<>>

\* line 257: bsgo_url = webhook_cfg.get("bsgo_url") or DEFAULT_URL
SourceOf(webhook_cfg) ==
    IF webhook_cfg.bsgo_url # "" THEN webhook_cfg.bsgo_url ELSE DEFAULT_URL

\* the statement of run_once_for after s, with the aggregate append moved
\* behind the rendering
StepAfterRenderEarly(s) ==
    CASE s = "fetch" -> "append"
      [] s = "append" -> "render"
      [] s = "render" -> "average"
      [] s = "average" -> "return"

\* the statement of run_once_for that follows s (lines 259, 263, 267, 274-275)
StepAfter(s) ==
    CASE s = "fetch" -> "append"
      [] s = "append" -> "average"
      [] s = "average" -> "render"
      [] s = "render" -> "return"

\* how a run ended and what it has appended to the two logs since it began
RunRecord(outcome, snapshot, p, a) ==
    [idx |-> idx, outcome |-> outcome, snapshot |-> snapshot,
     playersAdded |-> Len(p.rows) - runBase.players,
     averagesAdded |-> Len(a.rows) - runBase.averages]

Init ==
    /\ env \in RawValues
    /\ pc = "startup"
    /\ exitCode = 0
    /\ webhooks = <<>>
    /\ cycle = 0
    /\ idx = 0
    /\ step = ""
    /\ df = <<>>
    /\ now = 0
    /\ players = NoFile
    /\ averages = NoFile
    /\ idFiles = [f \in IdFileNames |-> Absent]
    /\ netCalls = 0
    /\ ran = {}
    /\ trace = <<>>
    /\ runBase = [players |-> 0, averages |-> 0]
    /\ lastRun = NoRun
    /\ pub = NoPub
    /\ op = NoOp
    /\ hist = NoHist
    /\ result = NoOut
    /\ origin = <<>>
    /\ keys = [u \in Urls |-> {}]

\* line 278: webhooks = _load_webhooks(); SystemExit with a message ends the
\* process with status 1
Startup ==
    /\ pc = "startup"
    /\ LET r == LoadWebhooks(env) IN
       IF r.exit
       THEN /\ pc' = "exited"
            /\ exitCode' = 1
            /\ UNCHANGED webhooks
       ELSE /\ pc' = "loop"
            /\ webhooks' = r.hooks
            /\ UNCHANGED exitCode
    /\ UNCHANGED <<hist, result, origin, keys, env, cycle, idx, step, df, now,
                   players, averages, idFiles, netCalls, ran, trace, runBase,
                   lastRun, pub, op>>

\* the call of run_once_for for position i begins
EnterRun(i) ==
    /\ pc' = "run"
    /\ idx' = i
    /\ step' = "fetch"
    /\ ran' = IF i = 1 THEN {1} ELSE ran \cup {i}

\* lines 280-284: an iteration of the while loop begins, and with it the for
\* loop over webhooks
BeginCycle ==
    /\ pc = "loop"
    /\ cycle < MaxCycles
    /\ cycle' = cycle + 1
    /\ IF webhooks = <<>>
       THEN /\ pc' = "sleep"
            /\ ran' = {}
            /\ UNCHANGED <<idx, step>>
       ELSE EnterRun(1)
    /\ runBase' = [players |-> Len(players.rows), averages |-> Len(averages.rows)]
    /\ UNCHANGED <<hist, result, origin, keys, env, exitCode, webhooks, df,
                   now, players, averages, idFiles, netCalls, trace, lastRun,
                   pub, op>>

\* run_once_for returns: the for loop goes on to the next destination, or ends
\* and line 287 is reached.  p and a are the logs as the run leaves them.
Return(p, a) ==
    /\ runBase' = [players |-> Len(p.rows), averages |-> Len(a.rows)]
    /\ IF idx < Len(webhooks)
       THEN EnterRun(idx + 1)
       ELSE /\ pc' = "sleep"
            /\ UNCHANGED <<idx, step, ran>>

\* run_once_for raises e: the exception leaves the for loop and reaches the
\* except clause of line 285, or leaves the while loop
Raise(e) ==
    /\ pc' = IF Caught(e) THEN "sleep" ELSE "crashed"
    /\ UNCHANGED <<idx, step, ran, runBase>>

\* the run goes on after statement s, which completed with events ev
Advance(s, ev, p, a) ==
    /\ trace' = trace \o ev
    /\ IF StepAfter(s) = "return"
       THEN /\ Return(p, a)
            /\ lastRun' = RunRecord("returned", df, p, a)
       ELSE /\ step' = StepAfter(s)
            /\ UNCHANGED <<pc, idx, ran, runBase, lastRun>>

\* line 259: df = fetch_data(bsgo_url), and lines 260-262
Fetch ==
    /\ pc = "run"
    /\ step = "fetch"
    /\ netCalls' = netCalls + 1
    /\ \/ \* requests.get or raise_for_status raises
          /\ Raise("RequestException")
          /\ lastRun' = RunRecord("fetch_raised", <<>>, players, averages)
          /\ trace' = <<>>
          /\ UNCHANGED <<df, now>>
       \/ \E page \in CyclePages : \E k \in TickPoints(page) :
            LET snapshot == FetchData(page, now, k) IN
            /\ df' = snapshot
            /\ now' = IF k = 0 THEN now ELSE now + 1
            /\ trace' = <<"fetch">>
            /\ IF DfEmpty(snapshot)
               THEN /\ Return(players, averages)
                    /\ lastRun' = RunRecord("empty", snapshot, players, averages)
               ELSE /\ step' = StepAfter("fetch")
                    /\ UNCHANGED <<pc, idx, ran, runBase, lastRun>>
    /\ UNCHANGED <<hist, result, origin, keys, env, exitCode, webhooks, cycle,
                   players, averages, idFiles, pub, op>>

\* line 263: append_to_csv(df, RAW_DATA_CSV)
AppendPlayers ==
    /\ pc = "run"
    /\ step = "append"
    /\ \/ \* to_csv raises
          /\ Raise("OSError")
          /\ lastRun' = RunRecord("append_raised", df, players, averages)
          /\ UNCHANGED <<players, trace>>
       \/ /\ players' = AppendToCsv(df, players)
          /\ Advance("append", <<"append_players">>, players', averages)
    /\ UNCHANGED <<hist, result, origin, keys, env, exitCode, webhooks, cycle,
                   df, now, averages, idFiles, netCalls, pub, op>>

\* lines 264-267: the counts and update_average_csv(colonial_count, cylon_count)
UpdateAverage ==
    /\ pc = "run"
    /\ step = "average"
    /\ \/ \* to_csv raises
          /\ Raise("OSError")
          /\ lastRun' = RunRecord("average_raised", df, players, averages)
          /\ UNCHANGED <<averages, trace, origin>>
       \/ /\ averages' = UpdateAverageCsv(averages, now,
                                          CountFaction(df, "Colonial"),
                                          CountFaction(df, "Cylon"))
          /\ origin' = Append(origin, SourceOf(webhooks[idx]))
          /\ Advance("average", <<"append_average">>, players, averages')
    /\ UNCHANGED <<hist, result, keys, env, exitCode, webhooks, cycle, df, now,
                   players, idFiles, netCalls, pub, op>>

\* the record of a call send_to_discord(webhook_url, image, summary_text)
\* that is answered by resp
PubRecord(webhook_url, summary_text, resp, fs) ==
    [n |-> pub.n + 1, url |-> webhook_url,
     before |-> idFiles[IdFileForWebhook(webhook_url)],
     last_id |-> ReadLastMsgId(webhook_url, idFiles),
     req |-> BuildRequest(webhook_url, ReadLastMsgId(webhook_url, idFiles),
                          summary_text),
     resp |-> resp, fs |-> fs,
     \* the failed edits for this endpoint that immediately precede the call
     failedEdits |-> IF /\ pub.n > 0
                        /\ pub.url = webhook_url
                        /\ pub.req.method = "PATCH"
                        /\ ~(pub.resp.kind = "http" /\ pub.resp.ok)
                     THEN pub.failedEdits + 1 ELSE 0]

\* send_to_discord(webhook_url, combined_png, summary_text): it never raises
SendToDiscord(webhook_url, summary_text, resp, fs) ==
    /\ pub' = PubRecord(webhook_url, summary_text, resp, fs)
    /\ idFiles' = AfterResponse(webhook_url, resp, idFiles, fs)
    /\ netCalls' = netCalls + 1

\* lines 274-275: combined = plot_combined(...), then send_to_discord(...)
RenderAndPublish ==
    /\ pc = "run"
    /\ step = "render"
    /\ \E rd \in (IF averages.exists THEN ReadOutcomes ELSE {"none"}) :
       LET cfg == webhooks[idx]
           combined == PlotCombined(df, averages, cfg.label, rd)
       IN  /\ hist' = [read |-> rd, rows |-> combined.history]
           /\ IF combined.raised
              THEN /\ Raise(combined.exc)
                   /\ lastRun' = RunRecord("render_raised", df, players,
                                           averages)
                   /\ trace' = Append(trace, "render_start")
                   /\ UNCHANGED <<idFiles, netCalls, pub>>
              ELSE /\ \E resp \in Responses :
                       \E fs \in (IF Writes(resp) THEN FsOutcomes
                                                  ELSE {"ok"}) :
                         SendToDiscord(cfg.url, Summary(cfg.label, df), resp,
                                       fs)
                   /\ Advance("render",
                              <<"render_start", "render_done", "publish">>,
                              players, averages)
    /\ UNCHANGED <<result, origin, keys, env, exitCode, webhooks, cycle, df,
                   now, players, averages, op>>

\* line 288: time.sleep returns and the while loop starts over
Sleep ==
    /\ pc = "sleep"
    /\ pc' = "loop"
    /\ now' = now + 1
    /\ UNCHANGED <<hist, result, origin, keys, env, exitCode, webhooks, cycle,
                   idx, step, df, players, averages, idFiles, netCalls, ran,
                   trace, runBase, lastRun, pub, op>>

Next ==
    \/ Startup
    \/ BeginCycle
    \/ Fetch
    \/ AppendPlayers
    \/ UpdateAverage
    \/ RenderAndPublish
    \/ Sleep

Spec == Init /\ [][Next]_vars

\* the process is one thread that is never suspended: once it is in the
\* while loop, the statement it has reached is executed
FairSpec ==
    /\ Spec
    /\ WF_vars(BeginCycle)
    /\ WF_vars(Fetch)
    /\ WF_vars(AppendPlayers)
    /\ WF_vars(UpdateAverage)
    /\ WF_vars(RenderAndPublish)
    /\ WF_vars(Sleep)

-----------------------------------------------------------------------------
(* The function-level specification: the functions run_once_for is made of,  *)
(* each called on its own, in any order and with any argument, on the files  *)
(* as earlier calls and earlier processes left them.                         *)

\* what an id file may hold when the process starts
InitialIdFiles ==
    { Absent, Unreadable, TextFile(<<>>), TextFile(<<"1">>),
      TextFile(<<"1", " ">>) }

\* the two endpoints the calls are made for
CallUrls == { <<"a">>, <<"b">> }

InitCalls ==
    /\ env = <<"a", ",", "b">>
    /\ pc = "calls"
    /\ exitCode = 0
    /\ webhooks = LoadWebhooks(env).hooks
    /\ cycle = 0
    /\ idx = 0
    /\ step = ""
    /\ df = <<>>
    /\ now = 0
    /\ players = NoFile
    /\ averages = NoFile
    /\ \E fa \in InitialIdFiles : \E fb \in {Absent, TextFile(<<"2">>)} :
         idFiles = [f \in IdFileNames |->
                      IF f = IdFileForWebhook(<<"a">>) THEN fa
                      ELSE IF f = IdFileForWebhook(<<"b">>) THEN fb
                      ELSE Absent]
    /\ netCalls = 0
    /\ ran = {}
    /\ trace = <<>>
    /\ runBase = [players |-> 0, averages |-> 0]
    /\ lastRun = NoRun
    /\ pub = NoPub
    /\ op = NoOp
    /\ hist = NoHist
    /\ result = NoOut
    /\ origin = <<>>
    /\ keys = [u \in Urls |-> {}]

\* the record of the call that is made
OpRecord(name, raised, arg) ==
    [n |-> op.n + 1, name |-> name, raised |-> raised, arg |-> arg]

\* fetch_data(url)
CallFetch ==
    /\ pc = "calls"
    /\ op.n < MaxOps
    /\ netCalls' = netCalls + 1
    /\ \/ /\ op' = OpRecord("fetch_data", TRUE, <<>>)
          /\ UNCHANGED <<df, now>>
       \/ \E page \in Pages : \E k \in TickPoints(page) :
            /\ df' = FetchData(page, now, k)
            /\ now' = IF k = 0 THEN now ELSE now + 1
            /\ op' = OpRecord("fetch_data", FALSE, <<>>)
    /\ UNCHANGED <<hist, result, origin, keys, env, pc, exitCode, webhooks,
                   cycle, idx, step, players, averages, idFiles, ran, trace,
                   runBase, lastRun, pub>>

\* append_to_csv(df, RAW_DATA_CSV)
CallAppend ==
    /\ pc = "calls"
    /\ op.n < MaxOps
    /\ \/ /\ df # <<>>
          /\ op' = OpRecord("append_to_csv", TRUE, df)
          /\ UNCHANGED players
       \/ /\ players' = AppendToCsv(df, players)
          /\ op' = OpRecord("append_to_csv", FALSE, df)
    /\ UNCHANGED <<hist, result, origin, keys, env, pc, exitCode, webhooks,
                   cycle, idx, step, df, now, averages, idFiles, netCalls,
                   ran, trace, runBase, lastRun, pub>>

\* update_average_csv(colonial_count, cylon_count)
CallAverage ==
    /\ pc = "calls"
    /\ op.n < MaxOps
    /\ \/ /\ op' = OpRecord("update_average_csv", TRUE, df)
          /\ UNCHANGED averages
       \/ /\ averages' = UpdateAverageCsv(averages, now,
                                          CountFaction(df, "Colonial"),
                                          CountFaction(df, "Cylon"))
          /\ op' = OpRecord("update_average_csv", FALSE, df)
    /\ UNCHANGED <<hist, result, origin, keys, env, pc, exitCode, webhooks,
                   cycle, idx, step, df, now, players, idFiles, netCalls, ran,
                   trace, runBase, lastRun, pub>>

\* plot_combined(df, label) on a snapshot that is not empty
CallRender ==
    /\ pc = "calls"
    /\ op.n < MaxOps
    /\ df # <<>>
    /\ \E rd \in ReadOutcomes :
         op' = OpRecord("plot_combined",
                        PlotCombined(df, averages, "", rd).raised, df)
    /\ UNCHANGED <<hist, result, origin, keys, env, pc, exitCode, webhooks,
                   cycle, idx, step, df, now, players, averages, idFiles,
                   netCalls, ran, trace, runBase, lastRun, pub>>

\* send_to_discord(url, image, summary)
CallPublish ==
    /\ pc = "calls"
    /\ op.n < MaxOps
    /\ \E url \in CallUrls : \E resp \in Responses :
         \E fs \in (IF Writes(resp) THEN FsOutcomes ELSE {"ok"}) :
            SendToDiscord(url, Summary("", df), resp, fs)
    /\ op' = OpRecord("send_to_discord", FALSE, df)
    /\ UNCHANGED <<hist, result, origin, keys, env, pc, exitCode, webhooks,
                   cycle, idx, step, df, now, players, averages, ran, trace,
                   runBase, lastRun>>

NextCalls ==
    \/ CallFetch
    \/ CallAppend
    \/ CallAverage
    \/ CallRender
    \/ CallPublish

SpecCalls == InitCalls /\ [][NextCalls]_vars

-----------------------------------------------------------------------------
(* The destination states: send_to_discord called for the configured         *)
(* destinations, on id files as earlier processes left them, by a process    *)
(* that may end and be started again with the same configuration.            *)

\* the values of WEBHOOK_URLS
DestValues == { <<"a", ",", "b">>, <<"X", ",", "Y">> }

\* what the id file of the first destination may hold when the model begins:
\* nothing (no file), bytes that cannot be read, an empty or blank text, an
\* id, or a text that is no id
StoredStates ==
    { Absent, Unreadable, TextFile(<<>>), TextFile(<<" ">>), TextFile(<<"1">>),
      TextFile(<<"?">>) }

InitDest ==
    /\ env \in DestValues
    /\ pc = "calls"
    /\ exitCode = 0
    /\ webhooks = LoadWebhooks(env).hooks
    /\ cycle = 0
    /\ idx = 0
    /\ step = ""
    /\ df = <<>>
    /\ now = 0
    /\ players = NoFile
    /\ averages = NoFile
    /\ \E fa \in StoredStates : \E fb \in {Absent, TextFile(<<"2">>)} :
         idFiles = [f \in IdFileNames |->
                      IF f = IdFileForWebhook(webhooks[1].url) THEN fa
                      ELSE IF f = IdFileForWebhook(webhooks[2].url) THEN fb
                      ELSE Absent]
    /\ netCalls = 0
    /\ ran = {}
    /\ trace = <<>>
    /\ runBase = [players |-> 0, averages |-> 0]
    /\ lastRun = NoRun
    /\ pub = NoPub
    /\ op = NoOp
    /\ hist = NoHist
    /\ result = NoOut
    /\ origin = <<>>
    /\ keys = [u \in Urls |-> {}]

\* send_to_discord(cfg["url"], image, summary) for a configured destination
DestPublish ==
    /\ pc = "calls"
    /\ op.n < MaxOps
    /\ \E i \in DOMAIN webhooks : \E resp \in Responses :
         \E fs \in (IF Writes(resp) THEN FsOutcomes ELSE {"ok"}) :
            /\ SendToDiscord(webhooks[i].url, Summary(webhooks[i].label, df),
                             resp, fs)
            /\ keys' = [keys EXCEPT ![webhooks[i].url] =
                           @ \cup {IdFileForWebhook(webhooks[i].url)}]
    /\ op' = OpRecord("send_to_discord", FALSE, df)
    /\ UNCHANGED <<hist, result, origin, env, pc, exitCode, webhooks, cycle,
                   idx, step, df, now, players, averages, ran, trace, runBase,
                   lastRun>>

\* the process ends and is started again: line 278 loads the configuration
\* again, the files stay, and what the ended process held in memory is gone
DestRestart ==
    /\ pc = "calls"
    /\ op.n < MaxOps
    /\ webhooks' = LoadWebhooks(env).hooks
    /\ pub' = NoPub
    /\ netCalls' = 0
    /\ op' = OpRecord("restart", FALSE, <<>>)
    /\ UNCHANGED <<hist, result, origin, keys, env, pc, exitCode, cycle, idx,
                   step, df, now, players, averages, idFiles, ran, trace,
                   runBase, lastRun>>

NextDest ==
    \/ DestPublish
    \/ DestRestart

SpecDest == InitDest /\ [][NextDest]_vars

-----------------------------------------------------------------------------
(* The pure computations, each applied on its own: the bucketing of          *)
(* plot_combined (lines 148-155) to a snapshot, and _pct_leader_text to a    *)
(* history.                                                                  *)

\* the records a snapshot given to the bucketing is made of: fetch_data
\* yields any text as faction and any natural number as level
BucketFactions == {"Colonial", "Cylon", "Neutral"}

BucketLevels == {0, 15, 16, 25, 26, 139, 140, 255, 256, 300}

BucketRecords ==
    { [timestamp |-> 0, faction |-> f, player_id |-> "1", name |-> "n",
       level |-> l] : f \in BucketFactions, l \in BucketLevels }

\* the sequences over S of at most n elements
SeqUpTo(S, n) == UNION { [1 .. k -> S] : k \in 0 .. n }

\* the values of a column of averages.csv as read_csv yields them
Cells == {0, 1, 2, NaN}

HistoryRows == { [timestamp |-> 0, colonial |-> c, cylon |-> y] :
                    c \in Cells, y \in Cells }

\* the history of scenario E of the specification
ScenarioE ==
    << [timestamp |-> 1, colonial |-> 5, cylon |-> 3],
       [timestamp |-> 2, colonial |-> 2, cylon |-> 2],
       [timestamp |-> 3, colonial |-> 1, cylon |-> 4] >>

Histories == SeqUpTo(HistoryRows, MaxHistory) \cup {ScenarioE}

InitPure ==
    /\ env = <<"a">>
    /\ pc = "pure"
    /\ exitCode = 0
    /\ webhooks = LoadWebhooks(env).hooks
    /\ cycle = 0
    /\ idx = 0
    /\ step = ""
    /\ now = 0
    /\ players = NoFile
    /\ \/ /\ df \in SeqUpTo(BucketRecords, MaxSnapshot)
          /\ averages = NoFile
       \/ /\ df = <<>>
          /\ \E h \in Histories :
                averages = [exists |-> TRUE, header |-> TRUE, rows |-> h]
    /\ idFiles = [f \in IdFileNames |-> Absent]
    /\ netCalls = 0
    /\ ran = {}
    /\ trace = <<>>
    /\ runBase = [players |-> 0, averages |-> 0]
    /\ lastRun = NoRun
    /\ pub = NoPub
    /\ op = NoOp
    /\ hist = NoHist
    /\ result = NoOut
    /\ origin = <<>>
    /\ keys = [u \in Urls |-> {}]

\* lines 148-155 of plot_combined on the snapshot df
CallBucketize ==
    /\ pc = "pure"
    /\ result' = [name |-> "buckets", val |-> BucketCounts(df)]
    /\ UNCHANGED <<hist, origin, keys, env, pc, exitCode, webhooks, cycle,
                   idx, step, df, now, players, averages, idFiles, netCalls,
                   ran, trace, runBase, lastRun, pub, op>>

\* _pct_leader_text(df_hist) on the rows of averages.csv
CallPctLeaderText ==
    /\ pc = "pure"
    /\ result' = [name |-> "pct", val |-> PctLeaderText(averages.rows)]
    /\ UNCHANGED <<hist, origin, keys, env, pc, exitCode, webhooks, cycle,
                   idx, step, df, now, players, averages, idFiles, netCalls,
                   ran, trace, runBase, lastRun, pub, op>>

NextPure ==
    \/ CallBucketize
    \/ CallPctLeaderText

SpecPure == InitPure /\ [][NextPure]_vars

-----------------------------------------------------------------------------
(* Claims *)

\* the id on record in an id file: what a reader of the file gets, or the
\* empty text when no id is on record
RecordedId(f) == IF f.st = "text" THEN Strip(f.text) ELSE <<>>

HasPriorMessage(url) == RecordedId(idFiles[IdFileForWebhook(url)]) # <<>>

\* the step is a call of send_to_discord
PublishStep == pub'.n = pub.n + 1

\* the publish answered by a response with a success status
Succeeded(p) == p.resp.kind = "http" /\ p.resp.ok

\* the elements of a sequence
Range(q) == { q[i] : i \in 1 .. Len(q) }

\* the id file of the endpoint of the most recent publish, as it is now
PubFile == idFiles[IdFileForWebhook(pub.url)]

\* C1: a publish attempt that fails (a response without success status, or a
\* transport exception) leaves every recorded id as it was, and the id files
\* change only in a step that is a publish answered with a success status:
\* no call of fetch_data, append_to_csv, update_average_csv or plot_combined
\* changes them.
C1_IdChangesOnlyOnSuccess ==
    [][ /\ (PublishStep /\ ~Succeeded(pub')) => idFiles' = idFiles
        /\ idFiles' # idFiles => (PublishStep /\ Succeeded(pub')) ]_vars

\* an edit of message "1" has failed and "1" is still on record
C1_Witness ==
    /\ pub.n > 0
    /\ ~Succeeded(pub)
    /\ pub.req.method = "PATCH"
    /\ pub.before = TextFile(<<"1">>)
    /\ PubFile = TextFile(<<"1">>)

\* the request of the most recent publish is an edit of exactly the recorded
\* id, with the attachment-clearing payload, if an id was on record when the
\* call was made, and else a create without that payload
PubShape ==
    pub.n > 0 =>
        LET rec == RecordedId(pub.before) IN
        IF rec # <<>>
        THEN /\ pub.req.method = "PATCH"
             /\ pub.req.base = pub.url
             /\ pub.req.message = rec
             /\ pub.req.payload_json = "{\"attachments\": []}"
        ELSE /\ pub.req.method = "POST"
             /\ pub.req.base = pub.url
             /\ pub.req.message = <<>>
             /\ pub.req.payload_json = ""

\* the step is a publish for url that was answered with a success status and
\* an id, and whose write of the id file failed after the file was truncated
LostWrite(url) ==
    /\ PublishStep
    /\ pub'.url = url
    /\ Succeeded(pub')
    /\ pub'.resp.body = "id"
    /\ (pub'.fs = "write_fails" \/ ~pub'.resp.id.str)

C4_LaterDestinationsRun ==
    pc = "sleep" => ran = 1 .. Len(webhooks)

\* C5: once startup has succeeded the scheduler is never ended by an error
\* of a cycle: no exception leaves the while loop, every run that has begun
\* is followed by the sleep step of its cycle, every sleep step by the top of
\* the loop, and from there (within the cycles explored) the next cycle begins.
C5_SchedulerKeepsRunning ==
    /\ [](pc # "crashed")
    /\ (pc = "run") ~> (pc = "sleep")
    /\ (pc = "sleep") ~> (pc = "loop")
    /\ (pc = "loop" /\ cycle < MaxCycles) ~> (pc \in {"run", "sleep"})

\* a second cycle is running after a cycle in which rendering raised
C5_Witness ==
    /\ pc = "run"
    /\ cycle = 2
    /\ lastRun.outcome = "render_raised"

\* C6 as stated: every run of a destination in which nothing raised before
\* the aggregate append has appended exactly one row to the aggregate history,
\* whether the snapshot it fetched is empty or not.
C6_Original ==
    lastRun.outcome \in {"empty", "render_raised", "returned"} =>
        lastRun.averagesAdded = 1

\* the run fetched a snapshot that is not empty and both appends completed
AppendsCompleted(r) ==
    /\ r.snapshot # <<>>
    /\ r.outcome \notin {"fetch_raised", "append_raised", "average_raised"}

\* C6 as amended: a run whose snapshot is not empty and whose two appends
\* complete appends exactly one row to the aggregate history (zero counts
\* included); a run whose snapshot is empty, or whose fetch or append
\* raises, appends none.
C6_OneRowPerNonEmptyRun ==
    lastRun.outcome # "none" =>
        IF AppendsCompleted(lastRun)
        THEN lastRun.averagesAdded = 1
        ELSE lastRun.averagesAdded = 0

\* a run with a snapshot of one player of neither faction has appended one
\* row
C6_Witness ==
    /\ AppendsCompleted(lastRun)
    /\ CountFaction(lastRun.snapshot, "Colonial") = 0
    /\ CountFaction(lastRun.snapshot, "Cylon") = 0
    /\ lastRun.averagesAdded = 1

\* C7: rendering never fails: a run that has begun to render has completed
\* the rendering and attempted the publish.
C7_RenderingNeverFails ==
    "render_start" \in Range(trace) =>
        /\ "render_done" \in Range(trace)
        /\ "publish" \in Range(trace)

\* event e occurs in q before position i
Before(q, e, i) == \E j \in 1 .. (i - 1) : q[j] = e

\* C8: within a run no publish is sent before the rendering has completed,
\* no rendering begins before both appends have completed, and no append
\* happens before fetch_data has returned.
C8_StepsInOrder ==
    \A i \in 1 .. Len(trace) :
        /\ trace[i] = "publish" => Before(trace, "render_done", i)
        /\ trace[i] = "render_start" =>
              /\ Before(trace, "append_players", i)
              /\ Before(trace, "append_average", i)
        /\ trace[i] \in {"append_players", "append_average"} =>
              Before(trace, "fetch", i)

\* a run has fetched, appended to both logs and begun to render
C8_Witness ==
    trace = <<"fetch", "append_players", "append_average", "render_start">>

\* C9: a call of append_to_csv that returns leaves the player log unchanged
\* iff the snapshot is empty; for a snapshot that is not empty the log grows
\* by exactly the length of the snapshot and the records it held stay as
\* they were, at their positions.
C9_AppendOnly ==
    [][ (op'.n = op.n + 1 /\ op'.name = "append_to_csv" /\ ~op'.raised) =>
          /\ (players' = players) <=> (df = <<>>)
          /\ df # <<>> =>
                /\ Len(players'.rows) = Len(players.rows) + Len(df)
                /\ SubSeq(players'.rows, 1, Len(players.rows)) = players.rows
      ]_vars

\* a snapshot that is not empty has been appended to a log that already held
\* records
C9_Witness ==
    /\ op.name = "append_to_csv"
    /\ ~op.raised
    /\ op.arg # <<>>
    /\ Len(players.rows) > Len(op.arg)

\* C10: when WEBHOOK_URLS is empty (or white space only) the process leaves
\* startup only by exiting, with a nonzero status, and without having issued
\* an HTTP request.
C10_EmptyConfigExits ==
    Strip(env) = <<>> =>
        /\ pc \in {"startup", "exited"}
        /\ netCalls = 0
        /\ pc = "exited" => exitCode # 0

\* the process has exited on an empty WEBHOOK_URLS
C10_Witness ==
    /\ env = <<>>
    /\ pc = "exited"
    /\ exitCode = 1
    /\ netCalls = 0

\* q without its element at position i
Remove(q, i) == SubSeq(q, 1, i - 1) \o SubSeq(q, i + 1, Len(q))

\* the counts the distribution holds for faction f, one per band: the series
\* of the faction, and no count at all for a faction that has no series
SeriesOf(b, f) ==
    IF f = "Colonial" THEN b.counts_colonial
    ELSE IF f = "Cylon" THEN b.counts_cylon
    ELSE [k \in DOMAIN LEVEL_RANGES |-> 0]

\* the (faction, band) buckets in which record i of snap is counted: those
\* whose count is one lower for the snapshot without the record
BucketsCounting(snap, i) ==
    { fb \in BucketFactions \X DOMAIN LEVEL_RANGES :
        SeriesOf(BucketCounts(snap), fb[1])[fb[2]]
            - SeriesOf(BucketCounts(Remove(snap, i)), fb[1])[fb[2]] = 1 }

\* the level lies within one of the fixed bands
InSomeBand(l) ==
    \E k \in DOMAIN LEVEL_RANGES :
        LEVEL_RANGES[k][1] <= l /\ l <= LEVEL_RANGES[k][2]

\* the bands that contain the level
BandsOf(l) ==
    { k \in DOMAIN LEVEL_RANGES :
        LEVEL_RANGES[k][1] <= l /\ l <= LEVEL_RANGES[k][2] }

RECURSIVE SumTo(_, _)
SumTo(series, k) == IF k = 0 THEN 0 ELSE series[k] + SumTo(series, k - 1)

\* the number of records of faction f in snap whose level is in range
InRangeOf(snap, f) ==
    Cardinality({ i \in 1 .. Len(snap) :
                    snap[i].faction = f /\ InSomeBand(snap[i].level) })

\* C11 as stated: in the distribution computed from a snapshot, every record
\* is counted in exactly one (faction, band) bucket if its level lies within
\* one of the bands and in no bucket otherwise, and for each faction the
\* bucket counts sum to the number of its records whose level is in range.
C11_Original ==
    result.name = "buckets" =>
        /\ \A i \in 1 .. Len(df) :
              Cardinality(BucketsCounting(df, i)) =
                  IF InSomeBand(df[i].level) THEN 1 ELSE 0
        /\ \A f \in BucketFactions :
              SumTo(SeriesOf(result.val, f), Len(LEVEL_RANGES))
                  = InRangeOf(df, f)

\* C11 as amended: a record is counted in exactly one bucket, that of its
\* faction and of the band containing its level, if its faction is Colonial
\* or Cylon and its level lies within one of the bands, and in no bucket
\* otherwise (a record of any other faction is in no bucket); for each of the
\* two factions the bucket counts sum to the number of its records whose
\* level is in range.
C11_TwoFactionBuckets ==
    result.name = "buckets" =>
        /\ result.val = BucketCounts(df)
        /\ \A i \in 1 .. Len(df) :
              BucketsCounting(df, i) =
                  IF df[i].faction \in {"Colonial", "Cylon"}
                  THEN { <<df[i].faction, k>> : k \in BandsOf(df[i].level) }
                  ELSE {}
        /\ \A l \in BucketLevels : Cardinality(BandsOf(l)) <= 1
        /\ \A f \in {"Colonial", "Cylon"} :
              SumTo(SeriesOf(result.val, f), Len(LEVEL_RANGES))
                  = InRangeOf(df, f)

\* the distribution of a Colonial record of level 15, the upper end of the
\* first band, and a Cylon record of level 256, above every band
C11_Witness ==
    /\ result.name = "buckets"
    /\ Len(df) = 2
    /\ df[1].faction = "Colonial" /\ df[1].level = 15
    /\ df[2].faction = "Cylon" /\ df[2].level = 256
    /\ result.val.counts_colonial[1] = 1
    /\ SumTo(result.val.counts_cylon, Len(LEVEL_RANGES)) = 0

\* the rows of history h that hold both counts, those of them that are not
\* tied, and those in which a faction is ahead
PresentRows(h) ==
    { i \in 1 .. Len(h) : h[i].colonial # NaN /\ h[i].cylon # NaN }

NonTiedRows(h) == { i \in PresentRows(h) : h[i].colonial # h[i].cylon }

ColLeads(h) == { i \in NonTiedRows(h) : h[i].colonial > h[i].cylon }

CylLeads(h) == { i \in NonTiedRows(h) : h[i].cylon > h[i].colonial }

Abs(x) == IF x < 0 THEN -x ELSE x

\* the numbers of tenths that are 100 * n / d rounded to one decimal
Rounded(n, d) ==
    { t \in ((1000 * n) \div d) .. ((1000 * n) \div d + 1) :
        2 * Abs(t * d - 1000 * n) <= d }

\* C12: for any history, the rows with colonial = cylon count neither for a
\* faction nor in the denominator; when some row is not tied the text gives
\* 100 * (rows with colonial ahead) / (rows not tied) and the same for cylon,
\* each rounded to one decimal, and the two sum to 100.0 within a tenth; an
\* empty history gives the no-history text and a history whose rows are all
\* tied the all-tied text; the history of scenario E gives 50.0% and 50.0%.
\* (Rows that lack a count are dropped first; if none is left the text is the
\* no-history text.)
C12_LeaderPercentages ==
    result.name = "pct" =>
        LET h == averages.rows
            total == Cardinality(NonTiedRows(h))
        IN  /\ IF total > 0
               THEN \E c \in Rounded(Cardinality(ColLeads(h)), total) :
                    \E y \in Rounded(Cardinality(CylLeads(h)), total) :
                       /\ result.val = "Colonial ahead: " \o FormatTenths(c)
                                        \o "% | Cylon ahead: "
                                        \o FormatTenths(y) \o "%"
                       /\ Abs(c + y - 1000) <= 1
               ELSE IF PresentRows(h) # {}
                    THEN result.val = "All samples tied."
                    ELSE result.val = "No history yet."
            /\ h = <<>> => result.val = "No history yet."
            /\ h = ScenarioE =>
                  result.val = "Colonial ahead: 50.0% | Cylon ahead: 50.0%"

\* the leader text of a history of three rows, one of them tied and colonial
\* ahead in one of the other two, is 50.0% and 50.0%
C12_Witness ==
    /\ result.name = "pct"
    /\ Len(averages.rows) = 3
    /\ Cardinality(NonTiedRows(averages.rows)) = 2
    /\ Cardinality(ColLeads(averages.rows)) = 1
    /\ Cardinality(PresentRows(averages.rows)) = 3
    /\ result.val = "Colonial ahead: 50.0% | Cylon ahead: 50.0%"

\* C13: all records of the snapshot a call of fetch_data returned carry the
\* same timestamp, also when the clock advances while the rows are parsed.
C13_SharedTimestamp ==
    \A i, j \in 1 .. Len(df) : df[i].timestamp = df[j].timestamp

\* the message ids the endpoint issues
MessageIds == { v.text : v \in { w \in ResponseIds : w.str } }

\* the stored state holds an identifier that can be used for an edit
Usable(f) == f.st = "text" /\ Strip(f.text) \in MessageIds

\* the stored state is missing, cannot be read, or is empty or blank
NothingStored(f) ==
    f.st \in {"absent", "unreadable"} \/ Strip(f.text) = <<>>

\* the request of the most recent publish is a create
PubIsCreate ==
    /\ pub.req.method = "POST"
    /\ pub.req.base = pub.url
    /\ pub.req.message = <<>>
    /\ pub.req.payload_json = ""

\* C14 as stated: whenever the stored state of the destination is missing,
\* unreadable or corrupt (it holds no usable identifier), the read yields no
\* prior message and the publish that follows is a create.
C14_Original ==
    (pub.n > 0 /\ ~Usable(pub.before)) =>
        /\ ~Truthy(pub.last_id)
        /\ PubIsCreate

\* C14 as amended: the read returns for every stored state; it yields no
\* prior message, and the publish is a create, whenever the id file is
\* missing, cannot be opened or decoded, or is empty or blank; any other
\* text, an identifier or not, is taken as the identifier, stripped, and the
\* publish is an edit against it.
C14_ReadDegrades ==
    pub.n > 0 =>
        IF NothingStored(pub.before)
        THEN /\ ~Truthy(pub.last_id)
             /\ PubIsCreate
        ELSE /\ pub.last_id = Some(Strip(pub.before.text))
             /\ pub.req.method = "PATCH"
             /\ pub.req.message = Strip(pub.before.text)

\* a publish for a destination whose id file cannot be read was a create
C14_Witness ==
    /\ pub.n > 0
    /\ pub.before = Unreadable
    /\ pub.last_id = None
    /\ PubIsCreate

\* C15: a run in which the append to the player log or to the aggregate log
\* raised has nevertheless gone on to the rendering, which precedes the
\* publish, for that destination in that cycle.
C15_PersistenceBestEffort ==
    (pc = "sleep" /\ lastRun.outcome \in {"append_raised", "average_raised"}) =>
        "render_start" \in Range(trace)

\* the endpoint URLs of the configured destinations
Configured == { webhooks[i].url : i \in DOMAIN webhooks }

\* the id on record for endpoint u in the id files
RecordedIn(files, u) == RecordedId(files[IdFileForWebhook(u)])

\* every endpoint URL has resolved to one id file at most, in all the
\* publishes made for it, before and after restarts
OneKeyPerUrl == \A u \in Urls : Cardinality(keys[u]) <= 1

\* C16 as stated: a publish for one destination, successful or not, leaves
\* the recorded id of every configured destination with another endpoint URL
\* as it was, and an endpoint URL resolves to the same id file in every
\* publish, also after a restart.
C16_Original ==
    /\ [][PublishStep =>
            \A v \in Configured :
                v # pub'.url => RecordedIn(idFiles', v) = RecordedIn(idFiles, v)
         ]_vars
    /\ []OneKeyPerUrl

\* C16 as amended: a publish for one destination leaves the id file of every
\* configured destination whose endpoint URL has another digest prefix (the
\* first ten hex digits of its md5) as it was; the URLs "a", "b", "[]" and
\* {"url":"a"} have pairwise different prefixes; and an endpoint URL resolves
\* to the same id file in every publish, also after a restart.  Two URLs
\* with the same prefix share one id file and with it their recorded id.
C16_DistinctKeysIndependent ==
    /\ [][PublishStep =>
            \A v \in Configured :
                IdFileForWebhook(v) # IdFileForWebhook(pub'.url) =>
                    idFiles'[IdFileForWebhook(v)] = idFiles[IdFileForWebhook(v)]
         ]_vars
    /\ [](\A u, v \in { <<"a">>, <<"b">>, <<"[", "]">>, <<"O">> } :
            u # v => IdFileForWebhook(u) # IdFileForWebhook(v))
    /\ []OneKeyPerUrl

\* after a restart a successful publish for endpoint "a" has edited message
\* "2", which a publish before the restart had recorded, and recorded "1",
\* while the id on record for endpoint "b" is still "2"
C16_Witness ==
    /\ env = <<"a", ",", "b">>
    /\ op.n = 3
    /\ op.name = "send_to_discord"
    /\ pub.n = 1
    /\ pub.url = <<"a">>
    /\ pub.before = TextFile(<<"2">>)
    /\ pub.req.method = "PATCH"
    /\ Succeeded(pub)
    /\ RecordedIn(idFiles, <<"a">>) = <<"1">>
    /\ RecordedIn(idFiles, <<"b">>) = <<"2">>
    /\ keys[<<"a">>] = {IdFileForWebhook(<<"a">>)}

C18_HistoryOfOwnSource ==
    (lastRun.outcome \in {"render_raised", "returned"} /\ hist.read = "ok") =>
        \A i \in 1 .. Len(hist.rows) :
            origin[i] = SourceOf(webhooks[lastRun.idx])

\* the step is a call of fetch_data by run_once_for that returns an empty
\* snapshot
FetchedEmpty ==
    /\ pc = "run"
    /\ step = "fetch"
    /\ trace' = <<"fetch">>
    /\ df' = <<>>

\* C19: a run whose fetched snapshot is empty ends there: the only request
\* it has sent is that of the fetch, no publish is made, the player log, the
\* aggregate log and the id files are as they were, and the for loop goes on
\* with the next destination, or reaches the sleep step after the last one.
C19_EmptySnapshotNoEffect ==
    [][FetchedEmpty =>
          /\ players' = players
          /\ averages' = averages
          /\ idFiles' = idFiles
          /\ pub' = pub
          /\ netCalls' = netCalls + 1
          /\ IF idx < Len(webhooks)
             THEN pc' = "run" /\ idx' = idx + 1 /\ step' = "fetch"
             ELSE pc' = "sleep"
      ]_vars

\* in a cycle that began with both logs holding rows, the run of the first
\* destination fetched an empty snapshot and the run of the second has begun
C19_Witness ==
    /\ lastRun.outcome = "empty"
    /\ lastRun.idx = 1
    /\ lastRun.playersAdded = 0
    /\ lastRun.averagesAdded = 0
    /\ pc = "run"
    /\ idx = 2
    /\ step = "fetch"
    /\ players.rows # <<>>
    /\ averages.rows # <<>>

\* C20: once startup has succeeded the list of destinations is not empty and
\* every entry of it has an endpoint URL that is not empty, whatever the
\* value of WEBHOOK_URLS.
C20_LoadedListNonEmpty ==
    pc \notin {"startup", "exited"} =>
        /\ webhooks # <<>>
        /\ \A i \in DOMAIN webhooks : webhooks[i].url # <<>>

=============================================================================
